---- MODULE Spec2Model ----
(***************************************************************************)
(* A model of the Tourism-Scraper loaders.                                 *)
(*   handle_database.py : create_database, populate_tables,                *)
(*                        meteorological_data, already_recorded            *)
(*   api_access.py      : request_from_weather_api, lat_lon_of_city,       *)
(*                        weather_data_already_saved_for_city,             *)
(*                        get_annual_data                                  *)
(* The MySQL server is modelled by the tables that exist (schema), their   *)
(* committed rows (db) and the rows the loader's own connection has        *)
(* inserted but not yet committed (pend).  already_recorded opens a        *)
(* connection of its own and therefore reads committed rows only.          *)
(***************************************************************************)
EXTENDS Integers, Sequences, FiniteSets, TLC

VARIABLES
    op,         \* the top-level function that is running or ran last
    pc,         \* its position: "idle", a statement label, "done" or "raised"
    run,        \* number of top-level calls started so far
    hist,       \* how the earlier calls ended ("done" or "raised"), oldest first
    i,          \* index of the dataframe row of the running loop
    j,          \* index of the popular mention of the running inner loop
    df,         \* attraction_df handed to populate_tables
    mdf,        \* met_df handed to meteorological_data
    dbExists,   \* the Attractions database exists on the server
    schema,     \* table name -> set of its columns, for the tables that exist
    db,         \* table name -> sequence of committed rows
    pend,       \* table name -> rows inserted by the open connection, uncommitted
    files,      \* names of the files in weather_files/
    city,       \* normalized city of the running Weather Fetcher call
    responses,  \* the responses lat_lon_of_city received in the running call
    latlon,     \* pair returned by lat_lon_of_city
    reqs,       \* [geo, weather]: requests issued by the running call
    calls,      \* ended Weather Fetcher calls, oldest first
    daily,      \* daily_data_df handed to get_annual_data
    annual      \* the Series get_annual_data returned

vars == <<op, pc, run, hist, i, j, df, mdf, dbExists, schema, db, pend,
          files, city, responses, latlon, reqs, calls, daily, annual>>

dbVars == <<df, mdf, dbExists, schema, db, pend, i, j>>
weatherVars == <<files, city, responses, latlon, reqs, calls>>
aggVars == <<daily, annual>>

(***************************************************************************)
(* Bounds of the model.                                                    *)
(***************************************************************************)
MaxRows == 2        \* rows of attraction_df
MaxMentions == 1    \* popular mentions of one attraction
MaxRuns == 2        \* top-level calls in one behaviour of the loader
MaxMetRows == 2     \* rows of met_df
MaxCalls == 3       \* calls of request_from_weather_api in one behaviour
MaxAttempts == 2    \* geocoding requests of one call the model follows
MaxDays == 2        \* rows of daily_data_df

AttractionNames == {"a1", "a2"}
CityNames == {"c1", "c2"}
Mentions == {"m1", "m2"}

RECURSIVE SeqsUpTo(_, _)
SeqsUpTo(S, n) ==
    IF n = 0 THEN {<<>>}
    ELSE LET shorter == SeqsUpTo(S, n - 1)
         IN  shorter \cup {Append(s, x) : s \in {t \in shorter : Len(t) = n - 1}, x \in S}

\* one row of attraction_df: the columns populate_tables reads that identify rows
AttractionRows ==
    [Name : AttractionNames, City : CityNames, Mentions : SeqsUpTo(Mentions, MaxMentions)]


(***************************************************************************)
(* handle_database.py: the schema.                                         *)
(***************************************************************************)
\* TABLES, in the dict's insertion order: its key, the table its CREATE TABLE
\* IF NOT EXISTS statement names, that table's columns, the columns of its
\* FOREIGN KEY clauses and the tables they reference.
TABLES == <<
    [key |-> "cities", table |-> "cities",
     cols |-> {"id", "name", "top_attractions_url"}, fk |-> {}, refs |-> {}],
    [key |-> "attractions", table |-> "attractions",
     cols |-> {"id", "name", "city_id", "url"}, fk |-> {"city_id"}, refs |-> {"cities"}],
    [key |-> "attraction_stats", table |-> "attraction_stats",
     cols |-> {"attraction_id", "ranking", "num_reviewers", "excellent_review",
               "very_good_review", "average_review", "poor_review", "terrible_review"},
     fk |-> {"attraction_id"}, refs |-> {"attractions"}],
    [key |-> "popular_mentions", table |-> "popular_mentions",
     cols |-> {"id", "popular_mention"}, fk |-> {}, refs |-> {}],
    [key |-> "popular_mentions_attractions", table |-> "popular_mentions_attractions",
     cols |-> {"id", "attraction_id", "popular_mention_id"},
     fk |-> {"attraction_id", "popular_mention_id"},
     refs |-> {"attractions", "popular_mentions"}],
    [key |-> "meteorological_data", table |-> "attraction_stats",
     cols |-> {"min_temp", "max_temp", "mean_temp", "total_precipitation"},
     fk |-> {"city_id"}, refs |-> {"cities"}] >>

\* the tables the loader reads or writes
TableNames == {TABLES[k].key : k \in 1..Len(TABLES)}

\* the column lists of the INSERT_INTO statements
INSERT_INTO ==
    [cities |-> {"name"},
     attractions |-> {"name", "city_id", "url"},
     attraction_stats |-> {"attraction_id", "ranking", "num_reviewers", "excellent_review",
                           "very_good_review", "average_review", "poor_review",
                           "terrible_review"},
     popular_mentions |-> {"popular_mention"},
     popular_mentions_attractions |-> {"attraction_id", "popular_mention_id"},
     meteorological_data |-> {"city_id", "min_temp", "max_temp", "mean_temp",
                              "total_precipitation"}]

EmptyRows == [t \in TableNames |-> <<>>]

\* CREATE TABLE IF NOT EXISTS: nothing happens when the table exists; otherwise
\* the table is created, or the statement fails when a FOREIGN KEY names a
\* column the table does not have or a table that does not exist.
CreateTableIfNotExists(sch, script) ==
    IF script.table \in DOMAIN sch THEN [ok |-> TRUE, schema |-> sch]
    ELSE IF script.fk \subseteq script.cols /\ script.refs \subseteq DOMAIN sch
         THEN [ok |-> TRUE, schema |-> sch @@ (script.table :> script.cols)]
         ELSE [ok |-> FALSE, schema |-> sch]

\* the schema after the first k scripts of TABLES ran on an empty database
RECURSIVE SchemaAfter(_)
SchemaAfter(k) ==
    IF k = 0 THEN <<>>
    ELSE CreateTableIfNotExists(SchemaAfter(k - 1), TABLES[k]).schema

(***************************************************************************)
(* handle_database.py: what the statements do on the server.               *)
(***************************************************************************)
\* the rows the loader's connection sees: committed ones and its own
View(t) == db[t] \o pend[t]

\* a statement on table t that uses the columns cols is accepted
Accepts(t, cols) == dbExists /\ t \in DOMAIN schema /\ cols \subseteq schema[t]

\* AUTO_INCREMENT: an id no visible row of the table has
NextId(t) == Len(View(t)) + 1

\* (SELECT id FROM ... WHERE col = val) used as a value, over the rows given:
\* NULL (0) for no row, the id for one row, and the statement fails (-1) when
\* several rows match
ScalarId(rows, col, val) ==
    LET ids == {rows[k].id : k \in {n \in 1..Len(rows) : rows[n][col] = val}}
    IN  IF ids = {} THEN 0
        ELSE IF Cardinality(ids) = 1 THEN CHOOSE x \in ids : TRUE
        ELSE -1

\* already_recorded with a broken query result test: never finds a row
AlreadyRecordedNever(var, data_table) ==
    IF ~Accepts(data_table, {"name"}) THEN "error" ELSE "no"

\* already_recorded(var, data_table): SELECT * FROM data_table WHERE name = var on
\* a connection of its own, so over committed rows. The query fails when the
\* table does not exist or has no column called name.
AlreadyRecorded(var, data_table) ==
    IF ~Accepts(data_table, {"name"}) THEN "error"
    ELSE IF \E k \in 1..Len(db[data_table]) : db[data_table][k].name = var
         THEN "yes" ELSE "no"

Insert(t, row) == [pend EXCEPT ![t] = Append(@, row)]


(***************************************************************************)
(* handle_database.py: populate_tables, one action per statement.          *)
(***************************************************************************)
Ended == pc \in {"idle", "done", "raised"}

\* an exception leaves the with block: the connection closes and the server
\* rolls back what it had not committed
Raised ==
    /\ pc' = "raised"
    /\ pend' = EmptyRows

\* conn.commit()
Commit ==
    /\ db' = [t \in TableNames |-> View(t)]
    /\ pend' = EmptyRows

\* a top-level call starts after the one before it ended
Begin ==
    /\ run' = run + 1
    /\ hist' = IF pc = "idle" THEN hist ELSE Append(hist, pc)

\* line 214: pymysql.connect(..., database="Attractions")
PopulateStart ==
    /\ Ended
    /\ run < MaxRuns
    /\ op' = "populate_tables"
    /\ Begin
    /\ i' = 1
    /\ j' = 1
    /\ pc' = IF dbExists THEN "attraction_check" ELSE "raised"
    /\ UNCHANGED <<df, mdf, dbExists, schema, db, pend, weatherVars, aggVars>>

\* lines 216-218: the next row, skipped when its attraction is recorded
PopulateCheckAttraction ==
    /\ op = "populate_tables" /\ pc = "attraction_check"
    /\ i <= Len(df)
    /\ LET found == AlreadyRecorded(df[i].Name, "attractions")
       IN  CASE found = "error" -> Raised /\ UNCHANGED i
             [] found = "yes" -> i' = i + 1 /\ UNCHANGED <<pc, pend>>
             [] found = "no" -> pc' = "city" /\ UNCHANGED <<i, pend>>
    /\ UNCHANGED <<op, run, hist, j, df, mdf, dbExists, schema, db, weatherVars, aggVars>>

\* lines 216 and 238: no row is left, the with block closes the connection
PopulateReturn ==
    /\ op = "populate_tables" /\ pc = "attraction_check"
    /\ i > Len(df)
    /\ pc' = "done"
    /\ UNCHANGED <<op, run, hist, dbVars, weatherVars, aggVars>>

\* lines 220-221: the city, inserted unless it is recorded
PopulateCity ==
    /\ op = "populate_tables" /\ pc = "city"
    /\ LET found == AlreadyRecorded(df[i].City, "cities")
       IN  CASE found = "error" -> Raised
             [] found = "yes" -> pc' = "attraction" /\ UNCHANGED pend
             [] found = "no" ->
                  IF Accepts("cities", INSERT_INTO.cities)
                  THEN /\ pend' = Insert("cities",
                                         [id |-> NextId("cities"), name |-> df[i].City])
                       /\ pc' = "attraction"
                  ELSE Raised
    /\ UNCHANGED <<op, run, hist, i, j, df, mdf, dbExists, schema, db, weatherVars, aggVars>>

\* line 223 followed by a commit of its own: one commit per statement
PopulateAttractionCommitting ==
    /\ op = "populate_tables" /\ pc = "attraction"
    /\ LET city_id == ScalarId(View("cities"), "name", df[i].City)
       IN  IF Accepts("attractions", INSERT_INTO.attractions)
              /\ Accepts("cities", {"id", "name"}) /\ city_id # -1
           THEN /\ db' = [t \in TableNames |->
                           IF t = "attractions"
                           THEN Append(View(t), [id |-> NextId(t), name |-> df[i].Name,
                                                 city_id |-> city_id])
                           ELSE View(t)]
                /\ pend' = EmptyRows
                /\ pc' = "stats"
           ELSE Raised /\ UNCHANGED db
    /\ UNCHANGED <<op, run, hist, i, j, df, mdf, dbExists, schema, weatherVars, aggVars>>

\* line 223: the attraction row, its city_id selected by the city's name
PopulateAttraction ==
    /\ op = "populate_tables" /\ pc = "attraction"
    /\ LET city_id == ScalarId(View("cities"), "name", df[i].City)
       IN  IF Accepts("attractions", INSERT_INTO.attractions)
              /\ Accepts("cities", {"id", "name"}) /\ city_id # -1
           THEN /\ pend' = Insert("attractions",
                                  [id |-> NextId("attractions"), name |-> df[i].Name,
                                   city_id |-> city_id])
                /\ pc' = "stats"
           ELSE Raised
    /\ UNCHANGED <<op, run, hist, i, j, df, mdf, dbExists, schema, db, weatherVars, aggVars>>

\* lines 224-227: the stats row, its attraction_id selected by the attraction's name
PopulateStats ==
    /\ op = "populate_tables" /\ pc = "stats"
    /\ LET attraction_id == ScalarId(View("attractions"), "name", df[i].Name)
       IN  IF Accepts("attraction_stats", INSERT_INTO.attraction_stats)
              /\ Accepts("attractions", {"id", "name"}) /\ attraction_id # -1
           THEN /\ pend' = Insert("attraction_stats", [attraction_id |-> attraction_id])
                /\ pc' = "commit"
           ELSE Raised
    /\ UNCHANGED <<op, run, hist, i, j, df, mdf, dbExists, schema, db, weatherVars, aggVars>>

\* line 228: conn.commit() after the city, attraction and stats rows
PopulateCommit ==
    /\ op = "populate_tables" /\ pc = "commit"
    /\ Commit
    /\ j' = 1
    /\ pc' = "mentions"
    /\ UNCHANGED <<op, run, hist, i, df, mdf, dbExists, schema, weatherVars, aggVars>>

\* the join row of line 232 or 236 over the rows given, then conn.commit()
InsertJoinAndCommit(mentionRows, name, popular_mention) ==
    LET attraction_id == ScalarId(View("attractions"), "name", name)
        popular_mention_id == ScalarId(mentionRows, "popular_mention", popular_mention)
    IN  IF Accepts("popular_mentions_attractions", INSERT_INTO.popular_mentions_attractions)
           /\ Accepts("attractions", {"id", "name"})
           /\ Accepts("popular_mentions", {"id", "popular_mention"})
           /\ attraction_id # -1 /\ popular_mention_id # -1
        THEN /\ db' = [t \in TableNames |->
                        IF t = "popular_mentions" THEN mentionRows
                        ELSE IF t = "popular_mentions_attractions"
                        THEN Append(View(t),
                                    [id |-> NextId(t), attraction_id |-> attraction_id,
                                     popular_mention_id |-> popular_mention_id])
                        ELSE View(t)]
             /\ pend' = EmptyRows
             /\ j' = j + 1
             /\ UNCHANGED <<pc, i>>
        ELSE Raised /\ UNCHANGED <<db, i, j>>

\* lines 230-237: the next popular mention of the attraction; after the last
\* one the outer loop moves to the next row
PopulateMention ==
    /\ op = "populate_tables" /\ pc = "mentions"
    /\ IF j > Len(df[i].Mentions)
       THEN /\ i' = i + 1
            /\ pc' = "attraction_check"
            /\ UNCHANGED <<db, pend, j>>
       ELSE LET popular_mention == df[i].Mentions[j]
                found == AlreadyRecorded(popular_mention, "popular_mentions")
            IN  CASE found = "error" -> Raised /\ UNCHANGED <<db, i, j>>
                  [] found = "yes" ->
                       InsertJoinAndCommit(View("popular_mentions"), df[i].Name,
                                           popular_mention)
                  [] found = "no" ->
                       IF Accepts("popular_mentions", INSERT_INTO.popular_mentions)
                       THEN InsertJoinAndCommit(
                                Append(View("popular_mentions"),
                                       [id |-> NextId("popular_mentions"),
                                        popular_mention |-> popular_mention]),
                                df[i].Name, popular_mention)
                       ELSE Raised /\ UNCHANGED <<db, i, j>>
    /\ UNCHANGED <<op, run, hist, df, mdf, dbExists, schema, weatherVars, aggVars>>

\* a statement of populate_tables fails (the connection is lost, the server
\* refuses it): the exception leaves the function
PopulateFail ==
    /\ op = "populate_tables" /\ ~Ended
    /\ Raised
    /\ UNCHANGED <<op, run, hist, i, j, df, mdf, dbExists, schema, db, weatherVars, aggVars>>

NoWeather ==
    /\ files = {} /\ city = <<>> /\ responses = <<>> /\ latlon = <<>>
    /\ reqs = [geo |-> 0, weather |-> 0] /\ calls = <<>>

NoAggregate == daily = <<>> /\ annual = <<>>

\* populate_tables on the database create_database made, still empty
InitLoad ==
    /\ op = "none" /\ pc = "idle" /\ run = 0 /\ hist = <<>> /\ i = 1 /\ j = 1
    /\ df \in SeqsUpTo(AttractionRows, MaxRows)
    /\ mdf = <<>>
    /\ dbExists = TRUE
    /\ schema = SchemaAfter(Len(TABLES))
    /\ db = EmptyRows /\ pend = EmptyRows
    /\ NoWeather /\ NoAggregate

NextLoad ==
    \/ PopulateStart
    \/ PopulateCheckAttraction
    \/ PopulateReturn
    \/ PopulateCity
    \/ PopulateAttraction
    \/ PopulateStats
    \/ PopulateCommit
    \/ PopulateMention
    \/ PopulateFail

SpecLoad == InitLoad /\ [][NextLoad]_vars


(***************************************************************************)
(* handle_database.py: create_database and meteorological_data.            *)
(***************************************************************************)
\* one row of met_df: the column that identifies it
MetRows == [Name : CityNames]

\* lines 246-250: CREATE database IF NOT EXISTS Attractions on a connection
\* without a database, then a connection to the database
CreateStart ==
    /\ Ended
    /\ run < MaxRuns
    /\ op' = "create_database"
    /\ Begin
    /\ dbExists' = TRUE
    /\ i' = 1
    /\ pc' = "tables"
    /\ UNCHANGED <<j, df, mdf, schema, db, pend, weatherVars, aggVars>>

\* lines 253-254: the next script of TABLES.values(); DDL commits by itself
CreateTable ==
    /\ op = "create_database" /\ pc = "tables"
    /\ i <= Len(TABLES)
    /\ LET made == CreateTableIfNotExists(schema, TABLES[i])
       IN  IF made.ok
           THEN schema' = made.schema /\ i' = i + 1 /\ UNCHANGED <<pc, pend>>
           ELSE Raised /\ UNCHANGED <<schema, i>>
    /\ UNCHANGED <<op, run, hist, j, df, mdf, dbExists, db, weatherVars, aggVars>>

\* line 253: no script is left
CreateReturn ==
    /\ op = "create_database" /\ pc = "tables"
    /\ i > Len(TABLES)
    /\ pc' = "done"
    /\ UNCHANGED <<op, run, hist, dbVars, weatherVars, aggVars>>

\* line 191: pymysql.connect(..., database="Attractions")
MetStart ==
    /\ Ended
    /\ run < MaxRuns
    /\ op' = "meteorological_data"
    /\ Begin
    /\ i' = 1
    /\ pc' = IF dbExists THEN "rows" ELSE "raised"
    /\ UNCHANGED <<j, df, mdf, dbExists, schema, db, pend, weatherVars, aggVars>>

\* lines 193-201: the next row of met_df: skipped when already_recorded finds
\* it, else inserted with city_id = (SELECT name FROM cities WHERE name = Name)
\* and committed
MetRow ==
    /\ op = "meteorological_data" /\ pc = "rows"
    /\ i <= Len(mdf)
    /\ LET found == AlreadyRecorded(mdf[i].Name, "meteorological_data")
           again == AlreadyRecorded(mdf[i].Name, "meteorological_data")
           names == {c.name : c \in {View("cities")[k] : k \in 1..Len(View("cities"))}}
                        \cap {mdf[i].Name}
           several == Cardinality({k \in 1..Len(View("cities")) :
                                      View("cities")[k].name = mdf[i].Name}) > 1
       IN  CASE found = "error" -> Raised /\ UNCHANGED <<db, i>>
             [] found = "yes" -> i' = i + 1 /\ UNCHANGED <<pc, db, pend>>
             [] found = "no" ->
                  IF again = "no"
                  THEN IF Accepts("meteorological_data", INSERT_INTO.meteorological_data)
                          /\ Accepts("cities", {"name"}) /\ ~several
                       THEN /\ db' = [t \in TableNames |->
                                       IF t = "meteorological_data"
                                       THEN Append(View(t), [city_id |-> names])
                                       ELSE View(t)]
                            /\ pend' = EmptyRows
                            /\ i' = i + 1
                            /\ UNCHANGED pc
                       ELSE Raised /\ UNCHANGED <<db, i>>
                  ELSE i' = i + 1 /\ UNCHANGED <<pc, db, pend>>
    /\ UNCHANGED <<op, run, hist, j, df, mdf, dbExists, schema, weatherVars, aggVars>>

\* lines 193 and 202: no row is left
MetReturn ==
    /\ op = "meteorological_data" /\ pc = "rows"
    /\ i > Len(mdf)
    /\ pc' = "done"
    /\ UNCHANGED <<op, run, hist, dbVars, weatherVars, aggVars>>

\* a server on which nothing was created yet
InitSchema ==
    /\ op = "none" /\ pc = "idle" /\ run = 0 /\ hist = <<>> /\ i = 1 /\ j = 1
    /\ df = <<>>
    /\ mdf \in SeqsUpTo(MetRows, MaxMetRows)
    /\ dbExists = FALSE
    /\ schema = <<>>
    /\ db = EmptyRows /\ pend = EmptyRows
    /\ NoWeather /\ NoAggregate

NextSchema ==
    \/ CreateStart
    \/ CreateTable
    \/ CreateReturn
    \/ MetStart
    \/ MetRow
    \/ MetReturn

SpecSchema == InitSchema /\ [][NextSchema]_vars

(***************************************************************************)
(* api_access.py: the Weather Fetcher.  A string is a sequence of          *)
(* one-character strings.                                                  *)
(***************************************************************************)
\* the city names the fetcher is called with: "Ab", "a b", "a_b" and "b"
CityInputs == { <<"A", "b">>, <<"a", " ", "b">>, <<"a", "_", "b">>, <<"b">> }

\* str.lower() on one character
Lower(c) == IF c = "A" THEN "a" ELSE IF c = "B" THEN "b" ELSE c

\* city.lower().replace(" ", "_")
Normalize(name) ==
    [k \in 1..Len(name) |-> IF Lower(name[k]) = " " THEN "_" ELSE Lower(name[k])]

\* f"{city}_weather.json"
FileName(name) ==
    name \o <<"_", "w", "e", "a", "t", "h", "e", "r", ".", "j", "s", "o", "n">>

\* filename.find(city_name) != -1
Contains(filename, city_name) ==
    \E k \in 0..(Len(filename) - Len(city_name)) :
        SubSeq(filename, k + 1, k + Len(city_name)) = city_name

\* the cache lookup gone wrong: it never finds a file
NeverSaved(city_name) == FALSE

\* weather_data_already_saved_for_city(city_name)
WeatherDataAlreadySaved(city_name) ==
    \E filename \in files : Contains(filename, Normalize(city_name))

\* what the geocoding service may answer: a status and, with 200, a list of results
Statuses == {200, 404, 500}
Results == { <<>>,
             <<[latitude |-> "lat1", longitude |-> "lon1"]>>,
             <<[latitude |-> "lat2", longitude |-> "lon2"],
               [latitude |-> "lat1", longitude |-> "lon1"]>> }
Responses ==
    {[status |-> 200, results |-> r] : r \in Results}
        \cup {[status |-> st, results |-> <<>>] : st \in Statuses \ {200}}

\* the loop of lat_lon_of_city giving up on a status it should retry
GeoBranchGivesUp(status) ==
    IF status = 200 THEN "break" ELSE "not_found"

\* lines 91-96: what the loop of lat_lon_of_city does with a response
GeoBranch(status) ==
    IF status = 200 THEN "break"
    ELSE IF status = 404 THEN "not_found"
    ELSE "retry"

\* the running call ends: returned normally or left by an exception
CallEnds(outcome, after) ==
    /\ pc' = outcome
    /\ calls' = Append(calls, [city |-> city, outcome |-> outcome,
                               geo |-> reqs'.geo, weather |-> reqs'.weather,
                               responses |-> responses',
                               before |-> files, after |-> after])

\* lines 114-116: the name is normalized and the cache looked up; a hit returns
FetchStart ==
    /\ Ended
    /\ run < MaxCalls
    /\ \E name \in CityInputs :
          /\ op' = "request_from_weather_api"
          /\ run' = run + 1
          /\ city' = Normalize(name)
          /\ responses' = <<>>
          /\ latlon' = <<>>
          /\ reqs' = [geo |-> 0, weather |-> 0]
          /\ IF WeatherDataAlreadySaved(Normalize(name))
             THEN /\ pc' = "done"
                  /\ calls' = Append(calls, [city |-> Normalize(name), outcome |-> "done",
                                             geo |-> 0, weather |-> 0, responses |-> <<>>,
                                             before |-> files, after |-> files])
             ELSE pc' = "geocode" /\ UNCHANGED calls
    /\ UNCHANGED <<hist, dbVars, files, aggVars>>

\* lines 89-98: one request of lat_lon_of_city and what follows from its answer
\* (a country only changes the URL of lines 85-88, not the loop)
LatLonRequest ==
    /\ op = "request_from_weather_api" /\ pc = "geocode"
    /\ Len(responses) < MaxAttempts
    /\ \E response \in Responses :
          /\ reqs' = [reqs EXCEPT !.geo = @ + 1]
          /\ responses' = Append(responses, response)
          /\ CASE GeoBranch(response.status) = "retry" ->
                    UNCHANGED <<pc, latlon, calls>>
               [] GeoBranch(response.status) = "not_found" ->
                    /\ latlon' = <<"None", "None">>
                    /\ pc' = "weather"
                    /\ UNCHANGED calls
               [] GeoBranch(response.status) = "break" ->
                    IF response.results = <<>>
                    THEN UNCHANGED latlon /\ CallEnds("raised", files)
                    ELSE /\ latlon' = <<response.results[1].latitude,
                                        response.results[1].longitude>>
                         /\ pc' = "weather"
                         /\ UNCHANGED calls
    /\ UNCHANGED <<op, run, hist, dbVars, files, city, aggVars>>

\* lines 123-129: the coordinates go into the URL and the archive is requested
WeatherRequest ==
    /\ op = "request_from_weather_api" /\ pc = "weather"
    /\ reqs' = [reqs EXCEPT !.weather = @ + 1]
    /\ pc' = "write"
    /\ UNCHANGED <<op, run, hist, dbVars, files, city, responses, latlon, calls, aggVars>>

\* lines 131-134: the response is written to weather_files/<city>_weather.json
WriteFile ==
    /\ op = "request_from_weather_api" /\ pc = "write"
    /\ files' = files \cup {FileName(city)}
    /\ UNCHANGED reqs /\ UNCHANGED responses
    /\ CallEnds("done", files')
    /\ UNCHANGED <<op, run, hist, dbVars, city, latlon, aggVars>>

\* an empty weather_files directory (lines 59-60 create it when it is missing)
InitWeather ==
    /\ op = "none" /\ pc = "idle" /\ run = 0 /\ hist = <<>> /\ i = 1 /\ j = 1
    /\ df = <<>> /\ mdf = <<>>
    /\ dbExists = FALSE /\ schema = <<>>
    /\ db = EmptyRows /\ pend = EmptyRows
    /\ NoWeather /\ NoAggregate

NextWeather ==
    \/ FetchStart
    \/ LatLonRequest
    \/ WeatherRequest
    \/ WriteFile

SpecWeather == InitWeather /\ [][NextWeather]_vars

(***************************************************************************)
(* api_access.py: the Annual Aggregator.  A number is an integer count of  *)
(* thousandths, so 5556 is 5.556; a rounded result is a multiple of 10.    *)
(***************************************************************************)
MinTemps == {-1234, 125, 5556}
MaxTemps == {-1234, 125, 5554}
MeanTemps == {14000, 15505}
Precipitations == {0, 2504}

DailyRows == [temperature_2m_max : MaxTemps, temperature_2m_min : MinTemps,
              temperature_2m_mean : MeanTemps, precipitation_sum : Precipitations]

Column(frame, name) == [k \in 1..Len(frame) |-> frame[k][name]]

\* Series.min() and Series.max()
SeriesMin(col) == CHOOSE x \in {col[k] : k \in 1..Len(col)} :
                     \A k \in 1..Len(col) : x <= col[k]
SeriesMax(col) == CHOOSE x \in {col[k] : k \in 1..Len(col)} :
                     \A k \in 1..Len(col) : x >= col[k]

\* Series.sum()
RECURSIVE SeriesSum(_)
SeriesSum(col) == IF col = <<>> THEN 0 ELSE col[1] + SeriesSum(Tail(col))

\* cutting the digits after the second decimal place off instead of rounding
Truncate2(num, den) ==
    IF num >= 0 THEN 10 * (num \div (10 * den))
    ELSE -10 * ((-num) \div (10 * den))

\* round(num / den, 2): the nearest multiple of a hundredth, a tie going to
\* the even one
Round2(num, den) ==
    LET down == num \div (10 * den)
        rest == num - down * 10 * den
    IN  IF 2 * rest < 10 * den THEN 10 * down
        ELSE IF 2 * rest > 10 * den THEN 10 * (down + 1)
        ELSE IF down % 2 = 0 THEN 10 * down ELSE 10 * (down + 1)

\* get_annual_data(daily_data_df)
get_annual_data(frame) ==
    [min_temp |-> Round2(SeriesMin(Column(frame, "temperature_2m_min")), 1),
     max_temp |-> Round2(SeriesMax(Column(frame, "temperature_2m_max")), 1),
     mean_temp |-> Round2(SeriesSum(Column(frame, "temperature_2m_mean")), Len(frame)),
     total_precipitation |-> Round2(SeriesSum(Column(frame, "precipitation_sum")), 1)]

\* lines 30-35: the aggregator is applied to the frame
GetAnnualData ==
    /\ op = "none" /\ pc = "idle"
    /\ op' = "get_annual_data"
    /\ annual' = get_annual_data(daily)
    /\ pc' = "done"
    /\ UNCHANGED <<run, hist, dbVars, weatherVars, daily>>

\* a daily series of at least one row
InitAggregate ==
    /\ op = "none" /\ pc = "idle" /\ run = 0 /\ hist = <<>> /\ i = 1 /\ j = 1
    /\ df = <<>> /\ mdf = <<>>
    /\ dbExists = FALSE /\ schema = <<>>
    /\ db = EmptyRows /\ pend = EmptyRows
    /\ NoWeather
    /\ daily \in SeqsUpTo(DailyRows, MaxDays) \ {<<>>}
    /\ annual = <<>>

NextAggregate == GetAnnualData

SpecAggregate == InitAggregate /\ [][NextAggregate]_vars

(***************************************************************************)
(* Properties of populate_tables (SpecLoad).                               *)
(***************************************************************************)
NoDuplicate(rows, col) ==
    \A a, b \in 1..Len(rows) : a # b => rows[a][col] # rows[b][col]

\* the row of attraction_df that populate_tables records for a name: the first
\* one, later rows of that name being skipped
RecordOf(name) == df[CHOOSE k \in 1..Len(df) :
                        /\ df[k].Name = name
                        /\ \A n \in 1..(k - 1) : df[n].Name # name]

Committed(t) == {db[t][k] : k \in 1..Len(db[t])}

HasStatsRow(a) == \E s \in Committed("attraction_stats") : s.attraction_id = a.id

HasCityRow(a) ==
    \E c \in Committed("cities") : c.id = a.city_id /\ c.name = RecordOf(a.name).City

HasJoinRow(a, popular_mention) ==
    \E m \in Committed("popular_mentions"), x \in Committed("popular_mentions_attractions") :
        /\ m.popular_mention = popular_mention
        /\ x.attraction_id = a.id /\ x.popular_mention_id = m.id

HasAllJoinRows(a) ==
    \A n \in 1..Len(RecordOf(a.name).Mentions) : HasJoinRow(a, RecordOf(a.name).Mentions[n])

\* C1: in every state of a first, second or later run of populate_tables with
\* the same attraction table, so also after the second run, no two rows of
\* cities share a name, no two rows of attractions share a name and no two rows
\* of popular_mentions share a popular_mention, uncommitted rows included.
C1_NoDuplicateRows ==
    /\ NoDuplicate(View("cities"), "name")
    /\ NoDuplicate(View("attractions"), "name")
    /\ NoDuplicate(View("popular_mentions"), "popular_mention")

\* a second run has returned over a table whose two attractions share a city
C1_Witness ==
    /\ op = "populate_tables" /\ run = 2 /\ pc = "done"
    /\ Len(df) = 2 /\ df[1].City = df[2].City
    /\ Len(db["attractions"]) = 2 /\ Len(db["cities"]) = 1

C4_CreatesSixTables ==
    (op = "create_database" /\ pc = "done")
    => dbExists /\ TableNames \subseteq DOMAIN schema

\* C5: a call of meteorological_data on the database create_database made
\* returns, and the weather table then holds one row for each city of met_df.
C5_OneWeatherRowPerCity ==
    (/\ op = "meteorological_data" /\ Ended
     /\ dbExists /\ schema = SchemaAfter(Len(TABLES)))
    => /\ pc = "done"
       /\ Len(db["meteorological_data"]) = Cardinality({mdf[k].Name : k \in 1..Len(mdf)})


(***************************************************************************)
(* Properties of the Weather Fetcher (SpecWeather).                        *)
(***************************************************************************)
Returned(k) == calls[k].outcome = "done"

\* the cache lookup of call k found no file
Missed(k) == calls[k].geo > 0

C3_NotFoundWritesNothing ==
    \A k \in 1..Len(calls) :
        (/\ calls[k].responses # <<>>
         /\ calls[k].responses[Len(calls[k].responses)].status = 404)
        => calls[k].weather = 0 /\ calls[k].after = calls[k].before

\* C7: lat_lon_of_city has issued one request per response received; every
\* response before the last had a status other than 200 and 404, so it is still
\* requesting only after such responses; it has returned only after a response
\* of status 200, with the coordinates of that response's first result, or of
\* status 404, with the pair None, None.
C7_RetriesUntilOkOrNotFound ==
    /\ reqs.geo = Len(responses)
    /\ \A k \in 1..(Len(responses) - 1) : responses[k].status \notin {200, 404}
    /\ pc = "geocode" => \A k \in 1..Len(responses) : responses[k].status \notin {200, 404}
    /\ pc \in {"weather", "write"} =>
          /\ responses # <<>>
          /\ LET last == responses[Len(responses)]
             IN  \/ /\ last.status = 404
                    /\ latlon = <<"None", "None">>
                 \/ /\ last.status = 200
                    /\ last.results # <<>>
                    /\ latlon = <<last.results[1].latitude, last.results[1].longitude>>

\* lat_lon_of_city returned the first of two results after a failed attempt
C7_Witness ==
    /\ pc = "weather"
    /\ Len(responses) = 2
    /\ responses[1].status = 500 /\ responses[2].status = 200
    /\ Len(responses[2].results) = 2
    /\ latlon = <<"lat2", "lon2">>

\* C9: every city for which a call has returned has its cache file
\* <normalized_city>_weather.json.
C9_OneFilePerCity ==
    \A k \in 1..Len(calls) : Returned(k) => FileName(calls[k].city) \in files


(***************************************************************************)
(* Properties of the Annual Aggregator (SpecAggregate).                    *)
(***************************************************************************)
\* C6 as stated: min_temp is at most every daily minimum and max_temp at least
\* every daily maximum.
C6_MinMaxBoundColumns ==
    (op = "get_annual_data" /\ pc = "done")
    => \A k \in 1..Len(daily) :
          /\ annual.min_temp <= daily[k].temperature_2m_min
          /\ annual.max_temp >= daily[k].temperature_2m_max

\* C6 amended: the statistics are rounded to two decimal places, so min_temp
\* is at most every daily minimum plus 0.005 and max_temp at least every daily
\* maximum minus 0.005; both are within 0.005 of a value of their column.
C6_MinMaxBoundColumnsRounded ==
    (op = "get_annual_data" /\ pc = "done")
    => /\ annual.min_temp % 10 = 0 /\ annual.max_temp % 10 = 0
       /\ \A k \in 1..Len(daily) :
             /\ annual.min_temp <= daily[k].temperature_2m_min + 5
             /\ annual.max_temp >= daily[k].temperature_2m_max - 5
       /\ \E k \in 1..Len(daily) :
             annual.min_temp >= daily[k].temperature_2m_min - 5
       /\ \E k \in 1..Len(daily) :
             annual.max_temp <= daily[k].temperature_2m_max + 5

\* a series of two days whose minimum was rounded up and maximum rounded down
C6_Witness ==
    /\ op = "get_annual_data" /\ pc = "done"
    /\ Len(daily) = 2
    /\ \A k \in 1..Len(daily) :
          /\ annual.min_temp > daily[k].temperature_2m_min
          /\ annual.max_temp < daily[k].temperature_2m_max

====
